---- MODULE Spec2Model ----
(***************************************************************************)
(* getnf: the `install` command of src/main.rs as a state machine.         *)
(*                                                                         *)
(* One process invocation walks through                                    *)
(*   main -> list_remote_all_fonts_ -> MultiSelect prompt -> install_fonts *)
(*        -> latest_release_version -> (download ; store)*                 *)
(* against an environment made of the upstream repository (catalog and     *)
(* latest release tag), the download directory and the font directories.   *)
(* Strings are sequences of one-character strings, paths are sequences of  *)
(* path components.                                                        *)
(***************************************************************************)
EXTENDS Integers, Sequences, FiniteSets, TLC

VARIABLES
    pc,          \* position of the running invocation
    outcome,     \* "none" while running, then "ok" | "reported" | "panic"
    argFonts,    \* Cli::Install.fonts, the -f argument
    global,      \* Cli::Install.global, the -g flag
    fonts,       \* main: the catalog as fetched by list_remote_all_fonts_
    selection,   \* main: the indices returned by MultiSelect::interact
    choosed,     \* main: choosed_fonts, the argument of install_fonts
    latest,      \* install_fonts: the release tag fetched (0 = not fetched)
    i,           \* install_fonts: 1-based position of the loop over fonts
    resp,        \* install_fonts: body of the response being stored
    requests,    \* HTTP requests sent by this invocation, in order
    io,          \* what the collaborators returned in the last step
    runs,        \* number of invocations started so far
    upstreamTag, \* upstream: tag of the latest release
    catalog,     \* upstream: names listed under patched-fonts
    downDir,     \* file system: the directory Cli::down_path(), name -> content
    diskFull,    \* file system: writes fail
    dirWritable, \* file system: entries of down_path() can be added/removed
    fontDirs,    \* file system: global flag -> the directory font_dir(global)
    os,          \* std::env::consts::OS
    buildHome,   \* value of HOME when the binary was compiled (env!)
    env,         \* process environment at run time: HOME, XDG_DATA_HOME
    resolved,    \* result of the last font_dir call
    listed       \* result of the last list_installed_fonts call

vars == <<pc, outcome, argFonts, global, fonts, selection, choosed, latest, i,
          resp, requests, io, runs, upstreamTag, catalog, downDir, diskFull,
          dirWritable, fontDirs, os, buildHome, env, resolved, listed>>

runVars == <<pc, outcome, argFonts, global, fonts, selection, choosed, latest,
             i, resp, requests, io>>
upstreamVars == <<upstreamTag, catalog>>
fsVars == <<downDir, diskFull, dirWritable, fontDirs>>
envVars == <<os, buildHome, env>>

----------------------------------------------------------------------------
(* Bounds *)

MaxNames == 3
MaxTag == 2
MaxRuns == 2

----------------------------------------------------------------------------
(* Values *)

Letters == <<"A", "B", "C", "D", "E">>
\* font package names, one letter each
Names == {<<Letters[k]>> : k \in 1..MaxNames}
NoDir == [present |-> FALSE, files |-> <<>>]
EmptyDir == [present |-> TRUE, files |-> <<>>]
NoFontDir == [present |-> FALSE, entries |-> {}]
EmptyFontDir == [present |-> TRUE, entries |-> {}]
Unset == "unset"
NoResp == [tag |-> 0, name |-> <<>>]
NoIo == [op |-> "none", res |-> "none", existed |-> FALSE]
Io(op, res) == [op |-> op, res |-> res, existed |-> FALSE]
NotResolved == [done |-> FALSE, path |-> <<>>]
NotListed == [done |-> FALSE, panicked |-> FALSE, names |-> <<>>]
Truncated == [tag |-> 0, name |-> <<"truncated">>]

Range(s) == {s[k] : k \in DOMAIN s}

\* sequences without repetition of at most n elements of S
DistinctSeqs(S, n) ==
    UNION {{t \in [1..k -> S] : \A a, b \in 1..k : a # b => t[a] # t[b]}
           : k \in 0..n}

\* every listing upstream may return
Catalogs == DistinctSeqs(Names, MaxNames)
\* the listings the install runs are explored with
InstallCatalogs == {<<>>, <<<<"B">>, <<"A">>>>, <<<<"A">>, <<"B">>, <<"C">>>>}
\* command lines: install -f "" and install -f "B,A" -g
CommandLines == {[fonts |-> <<>>, global |-> FALSE],
                 [fonts |-> <<"B", ",", "A">>, global |-> TRUE]}
Homes == {<<"home", "u">>, <<"home", "b">>}
OSes == {"linux", "macos", "windows", "freebsd"}

----------------------------------------------------------------------------
(* Pure functions of src/main.rs *)

\* font_dir: the platform directory of a scope.  env!("HOME") is expanded by
\* the compiler, so the user directories hang off buildHome and the process
\* environment is never read.  A trailing "/" does not change a PathBuf.
font_dir(g) ==
    CASE os = "linux" ->
           IF g THEN <<"/", "usr", "local", "share", "fonts">>
           ELSE buildHome \o <<".local", "share", "fonts">>
      [] os = "macos" ->
           IF g THEN <<"/", "Library", "Fonts">>
           ELSE buildHome \o <<"Library", "Fonts">>
      [] os = "windows" -> <<>>
      [] OTHER -> <<>>

\* Cli::down_path: HOME/Downloads/getnf, HOME again from the build
down_path == buildHome \o <<"Downloads", "getnf">>

\* file_name of a font in install_fonts: font + ".tar.xz"
file_name(font) == Append(font, ".tar.xz")

\* the download URL install_fonts builds for a font
download_url(tag, font) ==
    [kind |-> "download", tag |-> tag, name |-> file_name(font)]

\* selection keeps the indices as interact() returned them
choosed_in_selection_order(fs, sel) ==
    [k \in 1..Len(sel) |-> fs[sel[k] + 1]]

\* choosed_fonts of main: enumerate the catalog, keep the entries whose
\* 0-based index the selection contains, in catalog order
RECURSIVE choosed_fonts(_, _)
choosed_fonts(fs, sel) ==
    IF fs = <<>> THEN <<>>
    ELSE LET front == choosed_fonts(SubSeq(fs, 1, Len(fs) - 1), sel)
         IN  IF (Len(fs) - 1) \in Range(sel)
             THEN Append(front, fs[Len(fs)])
             ELSE front

\* the orders read_dir may enumerate a directory in
Enumerations(S) ==
    {s \in [1..Cardinality(S) -> S] : Range(s) = S}

\* list_installed_fonts: the values a call may return; none when
\* read_dir(..).unwrap() panics on a directory that is not there
list_installed_fonts(g) ==
    IF font_dir(g) = <<>> \/ ~fontDirs[g].present
    THEN {}
    ELSE Enumerations(fontDirs[g].entries)

----------------------------------------------------------------------------
(* Collaborators: HTTP transport and file system *)

\* what one call of request() can meet: the body arrives and parses; send()
\* fails; the body read fails half way; the body read fails after the last
\* byte; the body is not the JSON the caller indexes
RequestResults == {"ok", "send_err", "read_err_partial", "read_err_late",
                   "bad_json"}

\* request: send().unwrap() panics; read_to_string(..).ok() drops a read error
\* and parses whatever is in buf; from_str(..).unwrap() panics on a partial
\* body.  The callers unwrap the fields they index.
request(r) ==
    CASE r = "send_err"         -> "panic"
      [] r = "read_err_partial" -> "panic"
      [] r = "bad_json"         -> "panic"
      [] r = "read_err_late"    -> "value"
      [] r = "ok"               -> "value"

Sent(kind, tag, name) ==
    Append(requests, [kind |-> kind, tag |-> tag, name |-> name])

\* the bytes upstream serves for a font at a release
Body(tag, font) == [tag |-> tag, name |-> font]

\* path.exists() in install_fonts
exists(dir, fname) == dir.present /\ fname \in DOMAIN dir.files

\* a store step without the removal of the stale file
remove_stale_skipped(dir, fname) == dir

\* if path.exists() { fs::remove_file(&path).ok(); }: the entry goes unless
\* the directory refuses, and the refusal is dropped
remove_stale(dir, fname) ==
    IF exists(dir, fname) /\ dirWritable
    THEN [dir EXCEPT !.files = [f \in DOMAIN dir.files \ {fname} |-> dir.files[f]]]
    ELSE dir

\* fs::File::create_new(path): needs the directory, the right to add an entry
\* and no entry of that name
create_new_ok(dir, fname) ==
    dir.present /\ dirWritable /\ fname \notin DOMAIN dir.files

\* the file after f.write_all(bytes).ok(): a failed write is dropped and
\* leaves a truncated file
written(bytes) == IF diskFull THEN Truncated ELSE bytes

WithFile(dir, fname, content) ==
    [dir EXCEPT !.files = [f \in DOMAIN dir.files \cup {fname} |->
                              IF f = fname THEN content ELSE dir.files[f]]]

----------------------------------------------------------------------------
(* The install command *)

InitRun ==
    /\ pc = "start" /\ outcome = "none"
    /\ argFonts = <<>> /\ global = FALSE
    /\ fonts = <<>> /\ selection = <<>> /\ choosed = <<>>
    /\ latest = 0 /\ i = 0 /\ resp = NoResp /\ requests = <<>> /\ io = NoIo
    /\ runs = 0
    /\ resolved = NotResolved /\ listed = NotListed

Init ==
    /\ InitRun
    /\ upstreamTag = 1
    /\ catalog \in InstallCatalogs
    /\ downDir \in {NoDir, EmptyDir}
    /\ diskFull = FALSE /\ dirWritable = TRUE
    /\ fontDirs = [g \in BOOLEAN |-> EmptyFontDir]
    /\ os = "linux"
    /\ buildHome = <<"home", "b">>
    /\ env = [HOME |-> <<"home", "u">>, XDG_DATA_HOME |-> Unset]

\* unwrap() on an Err or a None: the process dies with a message
Panic ==
    /\ pc' = "done" /\ outcome' = "panic"

\* main, lines 213-220: a new process parses its arguments
main ==
    /\ pc \in {"start", "done"}
    /\ runs < MaxRuns
    /\ runs' = runs + 1
    /\ \E cli \in CommandLines :
         /\ argFonts' = cli.fonts
         /\ global' = cli.global
    /\ pc' = "catalog" /\ outcome' = "none"
    /\ fonts' = <<>> /\ selection' = <<>> /\ choosed' = <<>>
    /\ latest' = 0 /\ i' = 0 /\ resp' = NoResp /\ requests' = <<>>
    /\ io' = NoIo
    /\ UNCHANGED <<upstreamVars, fsVars, envVars, resolved, listed>>

\* main, line 228: let fonts = list_remote_all_fonts_() shadows the argument
list_remote_all_fonts_ ==
    /\ pc = "catalog"
    /\ \E r \in RequestResults :
         /\ requests' = Sent("contents", 0, <<>>)
         /\ io' = Io("request", r)
         /\ IF request(r) = "panic"
            THEN Panic /\ UNCHANGED fonts
            ELSE /\ fonts' = catalog
                 /\ pc' = "prompt"
                 /\ UNCHANGED outcome
    /\ UNCHANGED <<argFonts, global, selection, choosed, latest, i, resp,
                   runs, upstreamVars, fsVars, envVars, resolved, listed>>

\* main, lines 230-241: the prompt returns indices of the catalog, in any
\* order, or fails; choosed_fonts is filtered out of the catalog
interact ==
    /\ pc = "prompt"
    /\ \/ /\ Panic
          /\ io' = Io("interact", "err")
          /\ UNCHANGED <<selection, choosed>>
       \/ \E sel \in DistinctSeqs(0..(Len(fonts) - 1), Len(fonts)) :
            /\ selection' = sel
            /\ choosed' = choosed_fonts(fonts, sel)
            /\ io' = Io("interact", "ok")
            /\ pc' = "install"
            /\ UNCHANGED outcome
    /\ UNCHANGED <<argFonts, global, fonts, latest, i, resp, requests, runs,
                   upstreamVars, fsVars, envVars, resolved, listed>>

\* the for loop of install_fonts once the font at position k is dealt with
AfterFont(k) ==
    IF k >= Len(choosed)
    THEN /\ pc' = "done" /\ outcome' = "ok" /\ i' = k
    ELSE /\ pc' = "download" /\ i' = k + 1 /\ UNCHANGED outcome

\* install_fonts, line 163: latest_release_version() before the loop
latest_release_version ==
    /\ pc = "install"
    /\ \E r \in RequestResults :
         /\ requests' = Sent("latest", 0, <<>>)
         /\ io' = Io("request", r)
         /\ IF request(r) = "panic"
            THEN Panic /\ UNCHANGED <<latest, i>>
            ELSE /\ latest' = upstreamTag
                 /\ AfterFont(0)
    /\ UNCHANGED <<argFonts, global, fonts, selection, choosed, resp, runs,
                   upstreamVars, fsVars, envVars, resolved, listed>>

\* a loop that asks for the latest release again for every font
url_tag_refetched == upstreamTag

\* the release tag install_fonts puts in a download URL
url_tag == latest

\* a loop that skips the font whose download was refused and goes on
bad_status_continue == AfterFont(i)

\* install_fonts, lines 179-182: print the body and return
bad_status ==
    /\ pc' = "done" /\ outcome' = "reported"
    /\ UNCHANGED i

\* install_fonts, lines 166-182: GET the archive of the font at position i
download ==
    /\ pc = "download"
    /\ LET font == choosed[i]
           url == download_url(url_tag, font)
       IN  \E r \in {"send_err", "ok", "not_ok", "not_ok_text_err"} :
             /\ requests' = Sent(url.kind, url.tag, url.name)
             /\ io' = Io("download", r)
             /\ CASE r = "ok" ->
                       /\ resp' = Body(url.tag, font)
                       /\ pc' = "store"
                       /\ UNCHANGED <<outcome, i>>
                  [] r = "not_ok" ->
                       /\ bad_status
                       /\ UNCHANGED resp
                  [] OTHER -> Panic /\ UNCHANGED <<resp, i>>
    /\ UNCHANGED <<argFonts, global, fonts, selection, choosed, latest,
                   runs, upstreamVars, fsVars, envVars, resolved, listed>>

\* install_fonts, lines 184-190: put the body under down_path()
store ==
    /\ pc = "store"
    /\ LET fname == file_name(choosed[i])
           existed == exists(downDir, fname)
           cleared == remove_stale(downDir, fname)
           StoreIo(res) == [op |-> "store", res |-> res, existed |-> existed]
       IN  IF ~create_new_ok(cleared, fname)
           THEN /\ Panic
                /\ downDir' = cleared
                /\ io' = StoreIo("create_err")
                /\ UNCHANGED i
           ELSE \E bytesOk \in BOOLEAN :
                  IF ~bytesOk
                  THEN /\ Panic
                       /\ downDir' = WithFile(cleared, fname, Truncated)
                       /\ io' = StoreIo("bytes_err")
                       /\ UNCHANGED i
                  ELSE /\ downDir' = WithFile(cleared, fname, written(resp))
                       /\ io' = StoreIo(IF diskFull THEN "write_err" ELSE "ok")
                       /\ AfterFont(i)
    /\ resp' = NoResp
    /\ UNCHANGED <<argFonts, global, fonts, selection, choosed, latest,
                   requests, runs, upstreamVars, diskFull, dirWritable,
                   fontDirs, envVars, resolved, listed>>

----------------------------------------------------------------------------
(* Environment *)

\* upstream publishes a release
UpstreamRelease ==
    /\ upstreamTag < MaxTag
    /\ upstreamTag' = upstreamTag + 1
    /\ UNCHANGED <<runVars, runs, catalog, fsVars, envVars, resolved, listed>>

\* the disk fills up or is freed
DiskChange ==
    /\ diskFull' = ~diskFull
    /\ UNCHANGED <<runVars, runs, upstreamVars, downDir, dirWritable,
                   fontDirs, envVars, resolved, listed>>

\* the permissions of the download directory change
PermissionChange ==
    /\ downDir.present
    /\ dirWritable' = ~dirWritable
    /\ UNCHANGED <<runVars, runs, upstreamVars, downDir, diskFull, fontDirs,
                   envVars, resolved, listed>>

Next ==
    \/ main
    \/ list_remote_all_fonts_
    \/ interact
    \/ latest_release_version
    \/ download
    \/ store
    \/ UpstreamRelease
    \/ DiskChange
    \/ PermissionChange

Spec == Init /\ [][Next]_vars

----------------------------------------------------------------------------
(* Selection alone: every catalog, every answer of the prompt *)

InitSelect ==
    /\ InitRun
    /\ upstreamTag = 1
    /\ catalog \in Catalogs
    /\ downDir = EmptyDir
    /\ diskFull = FALSE /\ dirWritable = TRUE
    /\ fontDirs = [g \in BOOLEAN |-> EmptyFontDir]
    /\ os = "linux"
    /\ buildHome = <<"home", "b">>
    /\ env = [HOME |-> <<"home", "u">>, XDG_DATA_HOME |-> Unset]

NextSelect ==
    \/ main
    \/ list_remote_all_fonts_
    \/ interact

SpecSelect == InitSelect /\ [][NextSelect]_vars

----------------------------------------------------------------------------
(* The directory functions applied to every platform and environment *)

InitDir ==
    /\ InitRun
    /\ upstreamTag = 1
    /\ catalog = <<>>
    /\ downDir = EmptyDir
    /\ diskFull = FALSE /\ dirWritable = TRUE
    /\ fontDirs \in [BOOLEAN -> {NoFontDir, EmptyFontDir,
                                 [present |-> TRUE,
                                  entries |-> {<<"A">>, <<"B">>}]}]
    /\ os \in OSes
    /\ buildHome \in Homes
    /\ env \in [HOME : Homes, XDG_DATA_HOME : {Unset, <<"xdg">>}]

\* a call of font_dir(global)
font_dir_call ==
    /\ \E g \in BOOLEAN :
         /\ global' = g
         /\ resolved' = [done |-> TRUE, path |-> font_dir(g)]
    /\ UNCHANGED <<pc, outcome, argFonts, fonts, selection, choosed, latest,
                   i, resp, requests, io, runs, upstreamVars, fsVars,
                   envVars, listed>>

\* a call of list_installed_fonts(global)
list_installed_fonts_call ==
    /\ \E g \in BOOLEAN :
         /\ global' = g
         /\ IF list_installed_fonts(g) = {}
            THEN listed' = [done |-> TRUE, panicked |-> TRUE, names |-> <<>>]
            ELSE \E l \in list_installed_fonts(g) :
                   listed' = [done |-> TRUE, panicked |-> FALSE, names |-> l]
    /\ UNCHANGED <<pc, outcome, argFonts, fonts, selection, choosed, latest,
                   i, resp, requests, io, runs, upstreamVars, fsVars,
                   envVars, resolved>>

NextDir ==
    \/ font_dir_call
    \/ list_installed_fonts_call

SpecDir == InitDir /\ [][NextDir]_vars

----------------------------------------------------------------------------
(* Properties *)

Downloads == SelectSeq(requests, LAMBDA r : r.kind = "download")
LatestFetches == {k \in DOMAIN requests : requests[k].kind = "latest"}
DownloadAt == {k \in DOMAIN requests : requests[k].kind = "download"}
Count(s, x) == Cardinality({k \in DOMAIN s : s[k] = x})
\* position of a name in the fetched catalog (names are listed once)
Pos(f) == CHOOSE k \in DOMAIN fonts : fonts[k] = f

\* the step install_fonts takes out of a position
Leaves(p) == pc = p /\ pc' # p

\* C1: batch install is fail-fast and non-transactional.  When the download
\* of the font at position k is answered with a non-success status the
\* command is over: the downloads requested are those of positions 1..k and
\* no other, and the files of positions 1..k-1 are in the download directory
\* as this invocation wrote them.  A file changes only in the store step of
\* the font it belongs to, so nothing is created for positions k+1..n.
C1_FailFastState ==
    (io.op = "download" /\ io.res = "not_ok") =>
        /\ pc = "done" /\ outcome = "reported"
        /\ i \in 1..Len(choosed)
        /\ Len(Downloads) = i
        /\ \A j \in 1..i : Downloads[j].name = file_name(choosed[j])
        /\ \A j \in 1..(i - 1) :
             /\ exists(downDir, file_name(choosed[j]))
             /\ downDir.files[file_name(choosed[j])]
                  \in {Body(latest, choosed[j]), Truncated}

C1_FilesChangeInStore ==
    downDir' # downDir =>
        /\ pc = "store"
        /\ downDir'.present = downDir.present
        /\ \A f \in (DOMAIN downDir.files) \cup (DOMAIN downDir'.files) :
             f # file_name(choosed[i]) =>
                 /\ f \in DOMAIN downDir.files
                 /\ f \in DOMAIN downDir'.files
                 /\ downDir'.files[f] = downDir.files[f]

C1_FailFast == [](C1_FailFastState) /\ [][C1_FilesChangeInStore]_vars

\* C1 witness: the second of three fonts was refused, the first one is stored
C1_Witness ==
    /\ pc = "done" /\ outcome = "reported"
    /\ Len(choosed) = 3 /\ i = 2
    /\ exists(downDir, file_name(choosed[1]))
    /\ ~exists(downDir, file_name(choosed[3]))

\* C2: install_fonts called with an empty selection sends no request, touches
\* no file and returns success.
C2_EmptySelectionNoOp ==
    [][(Leaves("install") /\ choosed = <<>>) =>
          /\ requests' = requests
          /\ downDir' = downDir
          /\ pc' = "done" /\ outcome' = "ok"]_vars

\* "B,A".split(',')
RECURSIVE Tokens(_)
Tokens(s) ==
    IF \A k \in DOMAIN s : s[k] # ","
    THEN <<s>>
    ELSE LET p == CHOOSE k \in DOMAIN s :
                    s[k] = "," /\ \A j \in 1..(k - 1) : s[j] # ","
         IN  <<SubSeq(s, 1, p - 1)>> \o Tokens(SubSeq(s, p + 1, Len(s)))

SplitComma(s) == IF s = <<>> THEN <<>> ELSE Tokens(s)

\* C3: with an explicit comma-separated list the selection handed to
\* install_fonts is the list's tokens in the order given, and the prompt is
\* not consulted.
C3_ExplicitList ==
    pc = "install" =>
        /\ choosed = SplitComma(argFonts)
        /\ io.op # "interact"

\* C4: the selection is the subsequence of the catalog at the indices the
\* prompt returned, in catalog order, whatever the order of the indices.
C4_CatalogOrder ==
    /\ Range(choosed) = {fonts[k + 1] : k \in Range(selection)}
    /\ Len(choosed) = Cardinality(Range(selection))
    /\ \A a, b \in DOMAIN choosed :
         a < b => Pos(choosed[a]) < Pos(choosed[b])

\* C4 witness: candidates [A,B,C], indices returned as [2,0], selection [A,C]
C4_Witness ==
    /\ pc = "install"
    /\ fonts = <<<<"A">>, <<"B">>, <<"C">>>>
    /\ selection = <<2, 0>>
    /\ choosed = <<<<"A">>, <<"C">>>>

\* C5: after a successful install every font of the selection is listed
\* exactly once by list_installed_fonts for the same scope.
C5_InstallThenList ==
    (pc = "done" /\ outcome = "ok") =>
        \A f \in Range(choosed) :
            /\ list_installed_fonts(global) # {}
            /\ \A l \in list_installed_fonts(global) : Count(l, f) = 1

\* C6: re-install overwrites.  A store step that finds the file of an earlier
\* install (directory writable, disk not full, body received) does not fail,
\* leaves the new body in the file and every other file as it was; when the
\* file already holds that body the directory is unchanged.
C6_ReinstallOverwrites ==
    [][(/\ Leaves("store")
        /\ exists(downDir, file_name(choosed[i]))
        /\ dirWritable /\ ~diskFull
        /\ io'.res # "bytes_err") =>
          LET f == file_name(choosed[i])
          IN  /\ outcome' # "panic"
              /\ downDir'.present
              /\ DOMAIN downDir'.files = DOMAIN downDir.files
              /\ downDir'.files[f] = resp
              /\ \A g \in DOMAIN downDir.files :
                   g # f => downDir'.files[g] = downDir.files[g]
              /\ (downDir.files[f] = resp => downDir' = downDir)]_vars

\* C6 witness: a second invocation replaced a file and ended well
C6_Witness ==
    /\ runs = 2 /\ pc = "done" /\ outcome = "ok"
    /\ io.op = "store" /\ io.existed /\ io.res = "ok"
    /\ latest = 2
    /\ downDir.files[file_name(choosed[i])] = Body(2, choosed[i])

\* C7: no failure is swallowed.  A step in which reading a response body,
\* removing the stale file, creating or writing the file failed, or the
\* download was refused, ends the command with an error.
StepFailed ==
    \/ io.op = "request" /\ io.res # "ok"
    \/ io.op = "download" /\ io.res # "ok"
    \/ io.op = "store" /\ io.res # "ok"

C7_NoSwallowedFailure ==
    StepFailed => (pc = "done" /\ outcome \in {"panic", "reported"})

\* the directory C8 describes for Linux
claimed_linux_font_dir(g) ==
    IF g THEN <<"/", "usr", "local", "share", "fonts">>
    ELSE IF env.XDG_DATA_HOME # Unset
         THEN env.XDG_DATA_HOME \o <<"fonts">>
         ELSE env.HOME \o <<".local", "share", "fonts">>

\* C8: on Linux the resolver returns XDG_DATA_HOME/fonts when XDG_DATA_HOME
\* is set in the process environment, HOME/.local/share/fonts otherwise, and
\* /usr/local/share/fonts/ for the global scope.
C8_LinuxFontDir ==
    (resolved.done /\ os = "linux") =>
        resolved.path = claimed_linux_font_dir(global)

\* C9: the latest release tag is fetched once, before the first download,
\* and every download of the invocation is requested at that tag, whatever
\* upstream publishes meanwhile.
C9_OneTagPerBatch ==
    /\ Cardinality(LatestFetches) <= 1
    /\ \A k \in DownloadAt :
         /\ \E j \in LatestFetches : j < k
         /\ requests[k].tag = latest
    /\ (pc \in {"download", "store"} => Cardinality(LatestFetches) = 1)

\* C9 witness: upstream published a release between two downloads
C9_Witness ==
    /\ pc = "store" /\ i = 2
    /\ upstreamTag # latest
    /\ Len(Downloads) = 2
    /\ Downloads[1].tag = Downloads[2].tag

\* C10: install creates the directory it writes into.  A store step that
\* finds no download directory creates it and does not fail on it.
C10_CreatesDirectories ==
    [][(/\ Leaves("store")
        /\ ~downDir.present
        /\ io'.res # "bytes_err") =>
          /\ outcome' # "panic"
          /\ downDir'.present]_vars

====
